---- MODULE Spec2Model ----
(***************************************************************************)
(* Model of backend/recommender.py (generate_recommendations) and of the   *)
(* client singleton of backend/supabase_client.py (get_client).            *)
(*                                                                         *)
(* Numbers.  Feature values are decimals with one fractional digit; the    *)
(* model stores value * Scale as an integer (0.8 is 8, a tempo of 120 is   *)
(* 1200).  The standardised tempo column is irrational in general, so a    *)
(* matrix carries the tempo entries as integer coefficients of one common  *)
(* factor sqrt(qn / qd): the real tempo entry is coef * sqrt(qn/qd)/Scale. *)
(* A cosine similarity is kept exactly, as sgn * sqrt(num / den).          *)
(* All arithmetic is exact (no floating-point rounding).                   *)
(***************************************************************************)
EXTENDS Integers, Sequences, FiniteSets

(***************************************************************************)
(* Bounds of the model                                                     *)
(***************************************************************************)
MaxTracks == 3
MaxTopN == 2
MaxCalls == 4

(***************************************************************************)
(* Values                                                                  *)
(***************************************************************************)
\* Python's None, and a present number n (stored as n * Scale)
None == <<>>
Num(n) == <<n>>

\* denominator of the stored feature values: float(value) is value[1] / Scale
Scale == 10

Float(value) == value[1]

\* top_n: int = 10
DefaultTopN == 10

feature_columns == <<"danceability", "energy", "valence", "tempo", "acousticness">>

tempo_idx == CHOOSE i \in 1..Len(feature_columns) : feature_columns[i] = "tempo"

Cols == 1..Len(feature_columns)

\* dict.get(key): the value, or None when the key is absent
Get(track, key) == IF key \in DOMAIN track THEN track[key] ELSE None

\* dict.get(key, default)
GetOr(track, key, default) == IF key \in DOMAIN track THEN track[key] ELSE default

(***************************************************************************)
(* Integer helpers                                                         *)
(***************************************************************************)
Abs(x) == IF x < 0 THEN 0 - x ELSE x

RECURSIVE Gcd(_, _)
Gcd(a, b) == IF b = 0 THEN a ELSE Gcd(b, a % b)

RECURSIVE SumSeq(_)
SumSeq(s) == IF s = <<>> THEN 0 ELSE Head(s) + SumSeq(Tail(s))

RECURSIVE GcdSeq(_)
GcdSeq(s) == IF s = <<>> THEN 0 ELSE Gcd(Abs(Head(s)), GcdSeq(Tail(s)))

\* a/b < c/d for naturals a, c and positive b, d, by continued fractions
\* (no product is formed, so no intermediate value exceeds the operands)
RECURSIVE RatLess(_, _, _, _)
RatLess(a, b, c, d) ==
    LET qa == a \div b
        qc == c \div d
        ra == a % b
        rc == c % d
    IN  IF qa # qc THEN qa < qc
        ELSE IF rc = 0 THEN FALSE
        ELSE IF ra = 0 THEN TRUE
        ELSE RatLess(d, rc, b, ra)

(***************************************************************************)
(* Scores: the real number sgn * sqrt(num / den), num/den in lowest terms  *)
(***************************************************************************)
ZeroScore == [sgn |-> 0, num |-> 0, den |-> 1]

MkScore(dot, pn, xn) ==
    IF dot = 0 \/ pn = 0 \/ xn = 0 THEN ZeroScore
    ELSE LET d  == Abs(dot)
             g1 == Gcd(d, pn)
             g2 == Gcd(d, xn)
             n0 == (d \div g1) * (d \div g2)
             d0 == (pn \div g1) * (xn \div g2)
             g  == Gcd(n0, d0)
         IN  [sgn |-> IF dot < 0 THEN 0 - 1 ELSE 1,
              num |-> n0 \div g, den |-> d0 \div g]

\* a < b as real numbers
ScoreLess(a, b) ==
    IF a.sgn # b.sgn THEN a.sgn < b.sgn
    ELSE IF a.sgn = 0 THEN FALSE
    ELSE IF a.sgn = 1 THEN RatLess(a.num, a.den, b.num, b.den)
    ELSE RatLess(b.num, b.den, a.num, a.den)

\* a >= b as real numbers
ScoreGeq(a, b) == ~ScoreLess(a, b)

(***************************************************************************)
(* Stage 1: feature extraction and validation (recommender.py 37-57)       *)
(***************************************************************************)
\* mutant of IsMissing: "if not value", which also drops a zero
IsMissingFalsy(value) == value = None \/ Float(value) = 0

\* value is None
IsMissing(value) == value = None

\* the inner loop over feature_columns leaves valid = True
TrackValid(track) ==
    \A i \in Cols : ~IsMissing(Get(track, feature_columns[i]))

\* the features list of a valid track, in feature_columns order
TrackFeatures(track) ==
    [i \in Cols |-> Float(Get(track, feature_columns[i]))]

\* the loop over user_tracks: the two parallel lists it builds
RECURSIVE ExtractLoop(_, _, _)
ExtractLoop(tracks, feats, valid) ==
    IF tracks = <<>> THEN [track_features |-> feats, valid_tracks |-> valid]
    ELSE LET track == Head(tracks)
         IN  IF TrackValid(track)
             THEN ExtractLoop(Tail(tracks), Append(feats, TrackFeatures(track)),
                              Append(valid, track))
             ELSE ExtractLoop(Tail(tracks), feats, valid)

Extract(tracks) == ExtractLoop(tracks, <<>>, <<>>)

(***************************************************************************)
(* Stage 2: tempo normalisation (recommender.py 62-70)                     *)
(***************************************************************************)
\* mutant of FitTransform: the sample variance (n - 1) instead of the
\* population variance
FitTransformSampleVariance(column) ==
    LET n == Len(column)
        T == SumSeq(column)
        a == [i \in 1..n |-> n * column[i] - T]
        V == SumSeq([i \in 1..n |-> a[i] * a[i]])
    IN  IF V = 0
        THEN [coef |-> a, qn |-> 1, qd |-> n * n]
        ELSE LET g == GcdSeq(a)
                 b == [i \in 1..n |-> a[i] \div g]
                 W == SumSeq([i \in 1..n |-> b[i] * b[i]])
                 h == Gcd(Scale * Scale * (n - 1), W)
             IN  [coef |-> b, qn |-> (Scale * Scale * (n - 1)) \div h,
                  qd |-> W \div h]

\* mutant of FitTransform: a column of zero variance is left as it is
FitTransformSkipConstant(column) ==
    LET n == Len(column)
        T == SumSeq(column)
        a == [i \in 1..n |-> n * column[i] - T]
        V == SumSeq([i \in 1..n |-> a[i] * a[i]])
    IN  IF V = 0
        THEN [coef |-> column, qn |-> 1, qd |-> 1]
        ELSE LET g == GcdSeq(a)
                 b == [i \in 1..n |-> a[i] \div g]
                 W == SumSeq([i \in 1..n |-> b[i] * b[i]])
                 h == Gcd(Scale * Scale * n, W)
             IN  [coef |-> b, qn |-> (Scale * Scale * n) \div h, qd |-> W \div h]

\* StandardScaler().fit_transform on one column: z = (x - mean) / scale,
\* with the population variance, and scale 1 when the variance is zero.
\* With n values x[i]/Scale of sum T/Scale and a[i] = n*x[i] - T:
\*   x - mean = a[i] / (n*Scale),  variance = V / (n^3 * Scale^2), V = sum a^2
\*   V > 0:  z[i] = a[i] * sqrt(n / V) = b[i] * sqrt(n / W), b = a / gcd(a)
\*   V = 0:  z[i] = a[i] / (n*Scale)
\* returned as coefficients of sqrt(qn/qd)/Scale, qn/qd in lowest terms.
FitTransform(column) ==
    LET n == Len(column)
        T == SumSeq(column)
        a == [i \in 1..n |-> n * column[i] - T]
        V == SumSeq([i \in 1..n |-> a[i] * a[i]])
    IN  IF V = 0
        THEN [coef |-> a, qn |-> 1, qd |-> n * n]
        ELSE LET g == GcdSeq(a)
                 b == [i \in 1..n |-> a[i] \div g]
                 W == SumSeq([i \in 1..n |-> b[i] * b[i]])
                 h == Gcd(Scale * Scale * n, W)
             IN  [coef |-> b, qn |-> (Scale * Scale * n) \div h, qd |-> W \div h]

\* mutant of NeedsScaling: the guard on the number of rows is dropped
NeedsScalingAlways(features_array) == Len(features_array) >= 1

\* shape[0] > 1
NeedsScaling(features_array) == Len(features_array) > 1

\* normalized_features: a copy of features_array whose tempo column is
\* replaced by its standardised values when there is more than one row
Normalize(features_array) ==
    IF NeedsScaling(features_array)
    THEN LET z == FitTransform([i \in 1..Len(features_array) |->
                                    features_array[i][tempo_idx]])
         IN  [rows |-> [i \in 1..Len(features_array) |->
                          [j \in Cols |-> IF j = tempo_idx THEN z.coef[i]
                                          ELSE features_array[i][j]]],
              qn |-> z.qn, qd |-> z.qd]
    ELSE [rows |-> features_array, qn |-> 1, qd |-> 1]

(***************************************************************************)
(* Stage 3: profile (recommender.py 73)                                    *)
(***************************************************************************)
\* np.mean(normalized_features, axis=0): column j is sums[j] / n
\* (in the units of the matrix)
Mean(normalized) ==
    [sums |-> [j \in Cols |->
                 SumSeq([i \in 1..Len(normalized.rows) |-> normalized.rows[i][j]])],
     n |-> Len(normalized.rows)]

(***************************************************************************)
(* Stage 4: cosine similarity (recommender.py 76-79)                       *)
(***************************************************************************)
\* sum over the columns other than tempo of u[j] * v[j]
DotPlain(u, v) ==
    SumSeq([j \in Cols |-> IF j = tempo_idx THEN 0 ELSE u[j] * v[j]])

\* cosine_similarity(profile, matrix)[0][i].  Both vectors are normalised to
\* unit length first (a zero vector stays zero, so its similarity is 0);
\* the factors 1/n of the mean and 1/Scale cancel.  Over the common
\* denominator qd:  profile.row = dot, |profile|^2 = pn, |row|^2 = xn.
Cosine(profile, normalized, i) ==
    LET p   == profile.sums
        x   == normalized.rows[i]
        dot == DotPlain(p, x) * normalized.qd
                 + p[tempo_idx] * x[tempo_idx] * normalized.qn
        pn  == DotPlain(p, p) * normalized.qd
                 + p[tempo_idx] * p[tempo_idx] * normalized.qn
        xn  == DotPlain(x, x) * normalized.qd
                 + x[tempo_idx] * x[tempo_idx] * normalized.qn
    IN  MkScore(dot, pn, xn)

CosineSimilarity(profile, normalized) ==
    [i \in 1..Len(normalized.rows) |-> Cosine(profile, normalized, i)]

(***************************************************************************)
(* Stage 5: recommendation records, sort, slice (recommender.py 81-95)     *)
(***************************************************************************)
MakeRecommendation(track, score) ==
    [spotify_track_id |-> track.spotify_track_id,
     name |-> GetOr(track, "name", ""),
     artist |-> GetOr(track, "artist", ""),
     score |-> score]

BuildRecommendations(valid, sims) ==
    [idx \in 1..Len(valid) |-> MakeRecommendation(valid[idx], sims[idx])]

\* mutant of InsertDesc: ascending order
RECURSIVE InsertAsc(_, _)
InsertAsc(sorted, rec) ==
    IF sorted = <<>> THEN <<rec>>
    ELSE IF ScoreGeq(rec.score, Head(sorted).score)
         THEN <<Head(sorted)>> \o InsertAsc(Tail(sorted), rec)
         ELSE <<rec>> \o sorted

\* mutant of InsertDesc: descending but not stable (an equal score goes in
\* front), as sorting ascending and reversing would do
RECURSIVE InsertDescUnstable(_, _)
InsertDescUnstable(sorted, rec) ==
    IF sorted = <<>> THEN <<rec>>
    ELSE IF ScoreLess(rec.score, Head(sorted).score)
         THEN <<Head(sorted)>> \o InsertDescUnstable(Tail(sorted), rec)
         ELSE <<rec>> \o sorted

\* the position of rec in a list already sorted by descending score:
\* behind every entry whose score is greater or equal
RECURSIVE InsertDesc(_, _)
InsertDesc(sorted, rec) ==
    IF sorted = <<>> THEN <<rec>>
    ELSE IF ScoreGeq(Head(sorted).score, rec.score)
         THEN <<Head(sorted)>> \o InsertDesc(Tail(sorted), rec)
         ELSE <<rec>> \o sorted

\* list.sort(key=score, reverse=True): descending, stable
RECURSIVE SortLoop(_, _)
SortLoop(done, rest) ==
    IF rest = <<>> THEN done
    ELSE SortLoop(InsertDesc(done, Head(rest)), Tail(rest))

SortByScore(recs) == SortLoop(<<>>, recs)

\* mutant of SliceStop: the stop index is taken as inclusive
SliceStopInclusive(len, n) ==
    IF n >= 0 THEN (IF n + 1 < len THEN n + 1 ELSE len)
    ELSE (IF len + n + 1 > 0 THEN len + n + 1 ELSE 0)

\* the stop index of seq[:n]
SliceStop(len, n) ==
    IF n >= 0 THEN (IF n < len THEN n ELSE len)
    ELSE (IF len + n > 0 THEN len + n ELSE 0)

\* seq[:n]
SliceTo(seq, n) == SubSeq(seq, 1, SliceStop(Len(seq), n))

(***************************************************************************)
(* Inputs                                                                  *)
(***************************************************************************)
\* The two tracks of the documented scenario
TrackA == [spotify_track_id |-> "A", name |-> "Alpha", artist |-> "Ann",
           danceability |-> Num(8), energy |-> Num(7), valence |-> Num(6),
           tempo |-> Num(1200), acousticness |-> Num(1)]

TrackB == [spotify_track_id |-> "B", name |-> "Beta",
           danceability |-> Num(2), energy |-> Num(3), valence |-> Num(2),
           tempo |-> Num(800), acousticness |-> Num(9)]

\* the features of A under another id (a tie with A)
TrackA2 == [spotify_track_id |-> "A2",
            danceability |-> Num(8), energy |-> Num(7), valence |-> Num(6),
            tempo |-> Num(1200), acousticness |-> Num(1)]

\* acousticness is None
TrackC == [spotify_track_id |-> "C", name |-> "Gamma",
           danceability |-> Num(5), energy |-> Num(5), valence |-> Num(5),
           tempo |-> Num(1000), acousticness |-> None]

\* no tempo key at all
TrackD == [spotify_track_id |-> "D", artist |-> "Dan",
           danceability |-> Num(9), energy |-> Num(9), valence |-> Num(9),
           acousticness |-> Num(9)]

\* the tempo of A, other features
TrackE == [spotify_track_id |-> "E",
           danceability |-> Num(4), energy |-> Num(6), valence |-> Num(4),
           tempo |-> Num(1200), acousticness |-> Num(2)]

\* every feature is zero
TrackZ == [spotify_track_id |-> "Z", name |-> "Zero",
           danceability |-> Num(0), energy |-> Num(0), valence |-> Num(0),
           tempo |-> Num(0), acousticness |-> Num(0)]

Catalog == {TrackA, TrackB, TrackA2, TrackC, TrackD, TrackE, TrackZ}

TrackLists == UNION {[1..n -> Catalog] : n \in 0..MaxTracks}

TopNs == ((0 - MaxTopN)..MaxTopN) \cup {DefaultTopN}

(***************************************************************************)
(* State                                                                   *)
(***************************************************************************)
VARIABLES
    user_tracks,          \* argument of generate_recommendations
    top_n,                \* argument of generate_recommendations
    pc,                   \* position in generate_recommendations
    track_features,       \* local: the feature lists of the valid tracks
    valid_tracks,         \* local: the valid tracks
    normalized_features,  \* local: the matrix after tempo normalisation
    user_profile,         \* local: the column means
    similarities,         \* local: one score per valid track
    recommendations,      \* local: the records, sorted at the end
    result,               \* the returned list
    reached,              \* the stages executed so far
    client,               \* supabase_client._client
    env,                  \* os.environ: SUPABASE_URL, SUPABASE_SERVICE_ROLE_KEY
    calls,                \* get_client calls made
    attempts,             \* SupabaseClient.__init__ runs started
    constructed,          \* SupabaseClient objects constructed
    caller,               \* the function of the last get_client call
    returned              \* what the last get_client call returned or raised

recVars == <<user_tracks, top_n, pc, track_features, valid_tracks,
             normalized_features, user_profile, similarities, recommendations,
             result, reached>>

clientVars == <<client, env, calls, attempts, constructed, caller, returned>>

vars == <<user_tracks, top_n, pc, track_features, valid_tracks,
          normalized_features, user_profile, similarities, recommendations,
          result, reached, client, env, calls, attempts, constructed, caller,
          returned>>

NoMatrix == [rows |-> <<>>, qn |-> 1, qd |-> 1]
NoProfile == [sums |-> <<>>, n |-> 0]

LocalsInit ==
    /\ track_features = <<>>
    /\ valid_tracks = <<>>
    /\ normalized_features = NoMatrix
    /\ user_profile = NoProfile
    /\ similarities = <<>>
    /\ recommendations = <<>>
    /\ result = <<>>
    /\ reached = {}

\* a call generate_recommendations(user_tracks, top_n) is entered
RecInit ==
    /\ user_tracks \in TrackLists
    /\ top_n \in TopNs
    /\ pc = "start"
    /\ LocalsInit

\* module import: _client = None
ClientInit ==
    /\ client = None
    /\ env \in [{"SUPABASE_URL", "SUPABASE_SERVICE_ROLE_KEY"} -> {None}]
    /\ calls = 0
    /\ attempts = 0
    /\ constructed = 0
    /\ caller = ""
    /\ returned = None

(***************************************************************************)
(* generate_recommendations, stage by stage                                *)
(***************************************************************************)
\* if not user_tracks or len(user_tracks) == 0: return []
CheckEmpty ==
    /\ pc = "start"
    /\ UNCHANGED clientVars
    /\ IF Len(user_tracks) = 0
       THEN /\ pc' = "done"
            /\ result' = <<>>
       ELSE /\ pc' = "extract"
            /\ UNCHANGED result
    /\ UNCHANGED <<user_tracks, top_n, track_features, valid_tracks,
                   normalized_features, user_profile, similarities,
                   recommendations, reached>>

\* mutant of NoValidTracks: the early return is missing
NoValidTracksNever(feats) == FALSE

\* len(track_features) == 0
NoValidTracks(feats) == Len(feats) = 0

\* the extraction loop, then: if len(track_features) == 0: return []
ExtractStage ==
    /\ pc = "extract"
    /\ UNCHANGED clientVars
    /\ LET e == Extract(user_tracks)
       IN  /\ track_features' = e.track_features
           /\ valid_tracks' = e.valid_tracks
           /\ IF NoValidTracks(e.track_features)
              THEN /\ pc' = "done"
                   /\ result' = <<>>
              ELSE /\ pc' = "normalize"
                   /\ UNCHANGED result
    /\ reached' = reached \cup {"extract"}
    /\ UNCHANGED <<user_tracks, top_n, normalized_features, user_profile,
                   similarities, recommendations>>

\* features_array = np.array(track_features); the tempo column is scaled
NormalizeStage ==
    /\ pc = "normalize"
    /\ UNCHANGED clientVars
    /\ normalized_features' = Normalize(track_features)
    /\ pc' = "profile"
    /\ reached' = reached \cup {"normalize"}
    /\ UNCHANGED <<user_tracks, top_n, track_features, valid_tracks,
                   user_profile, similarities, recommendations, result>>

\* user_profile = np.mean(normalized_features, axis=0)
ProfileStage ==
    /\ pc = "profile"
    /\ UNCHANGED clientVars
    /\ user_profile' = Mean(normalized_features)
    /\ pc' = "similarity"
    /\ reached' = reached \cup {"profile"}
    /\ UNCHANGED <<user_tracks, top_n, track_features, valid_tracks,
                   normalized_features, similarities, recommendations, result>>

\* similarities = cosine_similarity(user_profile, normalized_features)[0]
SimilarityStage ==
    /\ pc = "similarity"
    /\ UNCHANGED clientVars
    /\ similarities' = CosineSimilarity(user_profile, normalized_features)
    /\ pc' = "rank"
    /\ reached' = reached \cup {"similarity"}
    /\ UNCHANGED <<user_tracks, top_n, track_features, valid_tracks,
                   normalized_features, user_profile, recommendations, result>>

\* build the records, sort them, return recommendations[:top_n]
RankStage ==
    /\ pc = "rank"
    /\ UNCHANGED clientVars
    /\ recommendations' = SortByScore(BuildRecommendations(valid_tracks, similarities))
    /\ result' = SliceTo(recommendations', top_n)
    /\ pc' = "done"
    /\ reached' = reached \cup {"rank"}
    /\ UNCHANGED <<user_tracks, top_n, track_features, valid_tracks,
                   normalized_features, user_profile, similarities>>

\* the whole function, as one value
GenerateRecommendations(tracks, n) ==
    IF Len(tracks) = 0 THEN <<>>
    ELSE LET e == Extract(tracks)
         IN  IF NoValidTracks(e.track_features) THEN <<>>
             ELSE LET m == Normalize(e.track_features)
                      p == Mean(m)
                      s == CosineSimilarity(p, m)
                  IN  SliceTo(SortByScore(BuildRecommendations(e.valid_tracks, s)), n)

Next ==
    \/ CheckEmpty
    \/ ExtractStage
    \/ NormalizeStage
    \/ ProfileStage
    \/ SimilarityStage
    \/ RankStage

Init == RecInit /\ ClientInit

Spec == Init /\ [][Next]_vars

(***************************************************************************)
(* supabase_client.py: the module-level client                             *)
(***************************************************************************)
\* what os.getenv can return: None, the empty string, a value
EnvValues == {None, <<"">>, <<"configured">>}

\* not value  (None or the empty string)
Falsy(value) == value = None \/ value = <<"">>

\* SupabaseClient.__init__ raises ValueError
InitRaises(e) ==
    Falsy(e["SUPABASE_URL"]) \/ Falsy(e["SUPABASE_SERVICE_ROLE_KEY"])

\* the object SupabaseClient() builds; id tells objects apart
NewClient(e, id) ==
    <<[id |-> id, url |-> e["SUPABASE_URL"][1],
       service_key |-> e["SUPABASE_SERVICE_ROLE_KEY"][1]]>>

\* mutant of MustConstruct: the test of _client is missing
MustConstructAlways(c) == TRUE

\* if _client is None
MustConstruct(c) == c = None

ValueError == <<"ValueError">>

\* get_client(), called from `from`
GetClientFrom(from) ==
    /\ calls < MaxCalls
    /\ UNCHANGED recVars
    /\ calls' = calls + 1
    /\ caller' = from
    /\ IF MustConstruct(client)
       THEN /\ attempts' = attempts + 1
            /\ IF InitRaises(env)
               THEN /\ returned' = ValueError
                    /\ UNCHANGED <<client, constructed>>
               ELSE /\ client' = NewClient(env, constructed + 1)
                    /\ constructed' = constructed + 1
                    /\ returned' = client'
       ELSE /\ returned' = client
            /\ UNCHANGED <<client, attempts, constructed>>
    /\ UNCHANGED env

GetClient == GetClientFrom("get_client")

\* client = get_client() at the head of each data-access function
GetUserTracks == GetClientFrom("get_user_tracks")

SaveRecommendations == GetClientFrom("save_recommendations")

GetUserProfile == GetClientFrom("get_user_profile")

\* the process environment is set or cleared between calls
SetEnv ==
    \E k \in DOMAIN env, v \in EnvValues :
        /\ env[k] # v
        /\ env' = [env EXCEPT ![k] = v]
        /\ UNCHANGED <<client, calls, attempts, constructed, caller, returned>>
        /\ UNCHANGED recVars

\* no call of generate_recommendations is in progress
RecIdle ==
    /\ user_tracks = <<>>
    /\ top_n = DefaultTopN
    /\ pc = "start"
    /\ LocalsInit

NextClient ==
    \/ GetClient
    \/ GetUserTracks
    \/ SaveRecommendations
    \/ GetUserProfile
    \/ SetEnv

InitClient == RecIdle /\ ClientInit

SpecClient == InitClient /\ [][NextClient]_vars

(***************************************************************************)
(* Properties                                                              *)
(***************************************************************************)
RequiredFeatures == {"danceability", "energy", "valence", "tempo", "acousticness"}

\* the track carries all five features: the key is there and is not None
AllFivePresent(t) == \A f \in RequiredFeatures : f \in DOMAIN t /\ t[f] # None

\* the valid tracks of the input, in input order, and their number
ValidInputs == SelectSeq(user_tracks, AllFivePresent)

V == Len(ValidInputs)

\* the feature values of a valid track as given in the input
RawVector(t) ==
    <<t.danceability[1], t.energy[1], t.valence[1], t.tempo[1], t.acousticness[1]>>

Min(a, b) == IF a < b THEN a ELSE b

Ids(recs) == {recs[i].spotify_track_id : i \in 1..Len(recs)}

One == [sgn |-> 1, num |-> 1, den |-> 1]

\* C1: for top_n >= 0 the returned list has exactly min(top_n, V) entries,
\* V the number of input tracks with all five features; top_n > V returns
\* all V of them.
C1_LengthIsMinTopNValid ==
    (pc = "done" /\ top_n >= 0) => Len(result) = Min(top_n, V)

C1_Witness ==
    /\ pc = "done"
    /\ V >= 2
    /\ V < Len(user_tracks)
    /\ top_n > V
    /\ Len(result) = V

\* C2: top_n zero or negative returns an empty list.
C2_EmptyForNonPositiveTopN ==
    (pc = "done" /\ top_n <= 0) => result = <<>>

\* C3: the returned scores are non-increasing, and no valid track left out
\* scores strictly higher than a returned one (at most i-1 scores are
\* strictly greater than the i-th returned score).
C3_SortedDescending ==
    pc = "done" =>
        /\ \A i \in 1..(Len(result) - 1) :
              ~ScoreLess(result[i].score, result[i + 1].score)
        /\ \A i \in 1..Len(result) :
              Cardinality({j \in 1..Len(similarities) :
                              ScoreLess(result[i].score, similarities[j])}) < i

C3_Witness ==
    /\ pc = "done"
    /\ Len(result) >= 2
    /\ Len(result) < V
    /\ ScoreLess(result[2].score, result[1].score)
    /\ result[1].spotify_track_id # ValidInputs[1].spotify_track_id

\* the ids of the entries of recs whose score is s, in order
RECURSIVE IdsWithScore(_, _)
IdsWithScore(recs, s) ==
    IF recs = <<>> THEN <<>>
    ELSE (IF Head(recs).score = s THEN <<Head(recs).spotify_track_id>> ELSE <<>>)
            \o IdsWithScore(Tail(recs), s)

\* the valid input tracks, in input order, each with its score
InputScored ==
    [i \in 1..V |-> [spotify_track_id |-> ValidInputs[i].spotify_track_id,
                     score |-> similarities[i]]]

IsPrefix(a, b) == Len(a) <= Len(b) /\ SubSeq(b, 1, Len(a)) = a

\* C4: the ranking is stable: the returned tracks of one score are, in
\* order, the first tracks of that score in the input.
C4_StableRanking ==
    pc = "done" =>
        \A i \in 1..Len(result) :
            IsPrefix(IdsWithScore(result, result[i].score),
                     IdsWithScore(InputScored, result[i].score))

C4_Witness ==
    /\ pc = "done"
    /\ \E i, j \in 1..Len(result) :
          /\ i < j
          /\ result[i].score = result[j].score
          /\ result[i].spotify_track_id # result[j].spotify_track_id
          /\ Len(IdsWithScore(result, result[i].score))
                < Len(IdsWithScore(InputScored, result[i].score))

\* C5: with no input track, or none with all five features, the call never
\* gets past the extraction, and returns the empty list, for every top_n.
C5_EmptyWithoutValidTracks ==
    V = 0 =>
        /\ pc \in {"start", "extract", "done"}
        /\ reached \subseteq {"extract"}
        /\ normalized_features = NoMatrix
        /\ user_profile = NoProfile
        /\ similarities = <<>>
        /\ pc = "done" => result = <<>>

C5_Witness ==
    /\ pc = "done"
    /\ Len(user_tracks) >= 2
    /\ V = 0
    /\ top_n < 0
    /\ "extract" \in reached
    /\ result = <<>>

\* C6: the tracks kept are exactly those with all five features present (a
\* zero is present); the profile and the result are those of the valid
\* tracks alone; no returned id is the id of an excluded track.
C6_InvalidTracksIgnored ==
    pc = "done" =>
        /\ valid_tracks = ValidInputs
        /\ track_features = [i \in 1..V |-> RawVector(ValidInputs[i])]
        /\ V > 0 => user_profile = Mean(Normalize([i \in 1..V |->
                                                    RawVector(ValidInputs[i])]))
        /\ result = GenerateRecommendations(ValidInputs, top_n)
        /\ Ids(result) \subseteq Ids(ValidInputs)
        /\ \A i \in 1..Len(user_tracks) :
              ~AllFivePresent(user_tracks[i])
                 => user_tracks[i].spotify_track_id \notin Ids(result)

C6_Witness ==
    /\ pc = "done"
    /\ V = 2
    /\ Len(user_tracks) = 3
    /\ "Z" \in Ids(result)
    /\ Len(result) = 2

\* C7 as claimed: for [A, B] and top_n = 2 both tracks are returned with
\* equal scores, A before B.
C7_ScenarioEqualScores ==
    (pc = "done" /\ user_tracks = <<TrackA, TrackB>> /\ top_n = 2) =>
        /\ Len(result) = 2
        /\ result[1].spotify_track_id = "A"
        /\ result[2].spotify_track_id = "B"
        /\ result[1].score = result[2].score

\* C7 amended: for [A, B] and top_n = 2 both tracks are returned, A before
\* B; the tempo z-scores are +1 and -1; the scores differ: A's is
\* sqrt(416/875) (about 0.69), B's is sqrt(26/77) (about 0.58), both below 1.
C7_ScenarioScores ==
    (pc = "done" /\ user_tracks = <<TrackA, TrackB>> /\ top_n = 2) =>
        /\ Len(result) = 2
        /\ result[1].spotify_track_id = "A"
        /\ result[2].spotify_track_id = "B"
        /\ normalized_features.rows[1][tempo_idx] = 1
        /\ normalized_features.rows[2][tempo_idx] = 0 - 1
        /\ normalized_features.qn = Scale * Scale * normalized_features.qd
        /\ result[1].score = [sgn |-> 1, num |-> 416, den |-> 875]
        /\ result[2].score = [sgn |-> 1, num |-> 26, den |-> 77]
        /\ ScoreLess(result[2].score, result[1].score)
        /\ ScoreLess(result[1].score, One)

C7_Witness ==
    /\ pc = "done"
    /\ user_tracks = <<TrackA, TrackB>>
    /\ top_n = 2
    /\ Len(result) = 2

\* C8: with exactly one valid track the tempo is not normalised: the matrix
\* row is the track's input vector, and so is the profile.
C8_SingleTrackNotNormalized ==
    V = 1 =>
        /\ "normalize" \in reached =>
              normalized_features =
                  [rows |-> <<RawVector(ValidInputs[1])>>, qn |-> 1, qd |-> 1]
        /\ "profile" \in reached =>
              user_profile = [sums |-> RawVector(ValidInputs[1]), n |-> 1]
        /\ pc = "done" => Len(recommendations) = 1

C8_Witness ==
    /\ pc = "done"
    /\ V = 1
    /\ Len(user_tracks) = 3
    /\ normalized_features.rows[1][tempo_idx] = 1200
    /\ result # <<>>
    /\ result[1].score = One

\* all valid tracks share one tempo
SameTempo == \A i, j \in 1..V : ValidInputs[i].tempo = ValidInputs[j].tempo

\* the cosine of the angle between the sum of the valid tracks and track i
\* over danceability, energy, valence and acousticness alone
FourFeatures(t) ==
    <<t.danceability[1], t.energy[1], t.valence[1], t.acousticness[1]>>

Dot4(u, w) == SumSeq([j \in 1..4 |-> u[j] * w[j]])

Sum4 ==
    [j \in 1..4 |-> SumSeq([i \in 1..V |-> FourFeatures(ValidInputs[i])[j]])]

Cosine4(i) ==
    MkScore(Dot4(Sum4, FourFeatures(ValidInputs[i])), Dot4(Sum4, Sum4),
            Dot4(FourFeatures(ValidInputs[i]), FourFeatures(ValidInputs[i])))

\* C9: when two or more valid tracks all share one tempo, every normalised
\* tempo is zero (over a non-zero denominator), the other columns are the
\* input values, and the scores are those of the other four features.
C9_ConstantTempoIsZero ==
    (V >= 2 /\ SameTempo) =>
        /\ "normalize" \in reached =>
              /\ normalized_features.qd > 0
              /\ Len(normalized_features.rows) = V
              /\ \A i \in 1..V : \A j \in Cols :
                    normalized_features.rows[i][j] =
                        IF j = tempo_idx THEN 0 ELSE RawVector(ValidInputs[i])[j]
        /\ "similarity" \in reached =>
              \A i \in 1..V : similarities[i] = Cosine4(i)

C9_Witness ==
    /\ pc = "done"
    /\ V >= 2
    /\ SameTempo
    /\ ValidInputs[1].tempo = Num(1200)
    /\ \E i, j \in 1..V : similarities[i] # similarities[j]

\* C10: a SupabaseClient is constructed only while _client is None; once
\* _client is set it never changes, nothing more is constructed, and every
\* call returns it; a call made while _client is None runs the constructor,
\* which with an unset variable raises ValueError and leaves _client None,
\* and otherwise sets _client to the new object and returns it.
C10_Step ==
    /\ attempts' # attempts => client = None
    /\ client # None =>
          /\ client' = client
          /\ attempts' = attempts
          /\ constructed' = constructed
          /\ calls' # calls => returned' = client
    /\ (client = None /\ calls' # calls) =>
          /\ attempts' = attempts + 1
          /\ IF None \in {env[k] : k \in DOMAIN env}
             THEN returned' = ValueError /\ client' = None
                     /\ constructed' = constructed
             ELSE (client' # None => returned' = client'
                                        /\ constructed' = constructed + 1)

C10_SingletonClient == [][C10_Step]_vars

C10_Witness ==
    /\ client # None
    /\ attempts = 2
    /\ constructed = 1
    /\ calls = 4
    /\ returned = client
    /\ env["SUPABASE_URL"] = None
    /\ caller = "save_recommendations"

====
